---- MODULE Spec2Model ----
(***************************************************************************)
(* Model of docs/archive/scripts/parse-excel.py: the Excel parser of the   *)
(* fashion attribute master.  Python strings are TLA+ strings; a character *)
(* of a string s is SubSeq(s, i, i).  A data frame is a record             *)
(* [cols |-> sequence of column names, rows |-> sequence of rows], a row   *)
(* being a sequence of cells aligned with cols.                            *)
(***************************************************************************)
EXTENDS Integers, Sequences, FiniteSets, TLC

VARIABLES
  workbook,           \* the Excel file: sheet position in SHEETS -> sheet
  pc,                 \* position of the run
  sheet_i,            \* position of the "for sheet_name in SHEETS" loop
  all_data,           \* list of the frames read so far
  combined_df,        \* the concatenated frame
  departments,        \* output collections of parse_excel
  sub_divisions,
  major_categories,
  attributes,
  category_mappings,
  stdout,             \* documents printed to standard output
  exit_code,          \* exit status of the process, -1 while it runs
  fn_in,              \* argument of a pure function under check
  fn_out              \* its successive results

vars == << workbook, pc, sheet_i, all_data, combined_df, departments,
           sub_divisions, major_categories, attributes, category_mappings,
           stdout, exit_code, fn_in, fn_out >>

----------------------------------------------------------------------------
(* Bounds of the checked inputs *)

MaxLen == 3       \* longest column header given to normalize_key
MaxWords == 2     \* most pieces concatenated into a key for get_priority
MaxCatRows == 4   \* most rows of a workbook of category rows
MaxAttrRows == 2  \* most rows of a workbook of attribute rows

----------------------------------------------------------------------------
(* Python values *)

\* None and the pandas missing-cell marker; neither is a text of the inputs.
None == "<None>"
NaN == "<NaN>"

isna(v) == v = None \/ v = NaN

Whitespace == {" ", "\t", "\n"}

Lower == "abcdefghijklmnopqrstuvwxyz"
Upper == "ABCDEFGHIJKLMNOPQRSTUVWXYZ"

Char(s, i) == SubSeq(s, i, i)

RECURSIVE lstrip(_)
lstrip(s) ==
  IF s # "" /\ Char(s, 1) \in Whitespace THEN lstrip(Tail(s)) ELSE s

RECURSIVE rstrip(_)
rstrip(s) ==
  IF s # "" /\ Char(s, Len(s)) \in Whitespace
  THEN rstrip(SubSeq(s, 1, Len(s) - 1))
  ELSE s

\* str.strip()
strip(s) == rstrip(lstrip(s))

\* str.replace(old, new) for a one-character old
RECURSIVE replace(_, _, _)
replace(s, old, new) ==
  IF s = "" THEN ""
  ELSE (IF Char(s, 1) = old THEN new ELSE Char(s, 1)) \o replace(Tail(s), old, new)

UpperChar(c) ==
  IF \E i \in 1..Len(Lower) : Char(Lower, i) = c
  THEN Char(Upper, CHOOSE i \in 1..Len(Lower) : Char(Lower, i) = c)
  ELSE c

\* str.upper()
RECURSIVE upper(_)
upper(s) == IF s = "" THEN "" ELSE UpperChar(Char(s, 1)) \o upper(Tail(s))

\* "kw in s" on strings
IsSubstring(kw, s) ==
  \E i \in 0..(Len(s) - Len(kw)) : SubSeq(s, i + 1, i + Len(kw)) = kw

\* s.startswith(prefix)
startswith(s, prefix) ==
  Len(s) >= Len(prefix) /\ SubSeq(s, 1, Len(prefix)) = prefix

----------------------------------------------------------------------------
(* Module constants *)

SHEETS ==
  << "KNITS-U", "KNITS-L", "WOVEN-U", "WOVEN-L", "BOTH (K&W)-U",
     "BOTH (K&W)-L", "BOTH (K&W)-U&L", "(K&W&D)-U&L", "DENIM" >>

HIERARCHY_COLS ==
  { "GMT FAB DIV", "FINISHED GOOD SEGMENT", "FINISHED GOOD SEGMENT FULL NAME",
    "FINISHED GOODS DIVISION", "FINISHED GOODS DIVISION FULL NAME",
    "SUB-DIVISION", "SUB-DIVISION FULL NAME", "MAJOR CATEGORY",
    "MAJOR CATEGORY FULL FORM", "MERCHENDISE CATEGORY CODE",
    "MERCHENDISE CATEGORY DESCRIPTION",
    "MERCHENDISE CATEGORY DESCRIPTION FULL FORM", "SEASON",
    "SEASON FULL NAME", "FATHER DESIGN", "FATHER DESIGN FULL NAME",
    "CHILD DESIGN MICRO MVGR", "CHILD DESIGN FULL NAME", "FABRIC DIVISION",
    "FABRIC DIVISION FULL NAME", "FABRIC_SHEET" }

----------------------------------------------------------------------------
(* The pure helpers *)

normalize_key(name) ==
  IF name = "" \/ isna(name)
  THEN None
  ELSE upper(replace(replace(replace(strip(name), "-", "_"), " ", "_"), "/", "_"))

fabric_keywords ==
  { "YARN", "WEAVE", "COMPOSITION", "FINISH", "CONSTRUCTION", "GRAM", "COUNT",
    "LYCRA", "FABRIC" }

design_keywords ==
  { "NECK", "COLLAR", "SLEEVES", "CUFF", "FIT", "PATTERN", "STYLE", "SHAPE",
    "LENGTH", "PRINT", "EMBROIDERY", "WASH", "POCKET", "WAIST", "RISE", "LEG",
    "PLACKET" }

technical_keywords == { "GSM", "OUNCE", "COUNT", "SHADE", "SIZE" }

categorize_attribute(attr_name) ==
  LET attr_upper == upper(attr_name) IN
  IF \E kw \in fabric_keywords : IsSubstring(kw, attr_upper) THEN "fabric"
  ELSE IF \E kw \in design_keywords : IsSubstring(kw, attr_upper) THEN "design"
  ELSE IF \E kw \in technical_keywords : IsSubstring(kw, attr_upper) THEN "technical"
  ELSE "other"

non_extractable ==
  { "YARN_01", "YARN_02", "WEAVE", "WEAVE_2", "COMPOSITION", "FINISH",
    "CONSTRUCTION", "GRAM_PER_SQUARE_METER", "OUNCE", "COUNT", "SHADE",
    "FABRIC_MAIN_MVGR" }

is_ai_extractable(key) == key \notin non_extractable

visible_keywords ==
  { "NECK", "COLLAR", "SLEEVES", "FIT", "PATTERN", "COLOR", "STYLE", "SHAPE",
    "LENGTH", "PRINT", "EMBROIDERY", "WASH", "PLACKET", "POCKET", "WAIST",
    "RISE", "LEG", "CLOSURE" }

is_visible(key) == \E kw \in visible_keywords : IsSubstring(kw, key)

\* the table with COLOR declared ahead of FIT and PATTERN
priorities_color_early ==
  << <<"NECK", 95>>, <<"COLOR", 90>>, <<"COLLAR", 90>>, <<"SLEEVES", 90>>,
     <<"FIT", 85>>, <<"PATTERN", 85>>, <<"STYLE", 80>>, <<"LENGTH", 75>>,
     <<"PRINT", 70>>, <<"EMBROIDERY", 65>>, <<"PLACKET", 70>>,
     <<"POCKET", 65>>, <<"WAIST", 75>>, <<"CLOSURE", 70>> >>

\* The dict literal of get_priority, in its declaration (= iteration) order.
priorities ==
  << <<"NECK", 95>>, <<"COLLAR", 90>>, <<"SLEEVES", 90>>, <<"FIT", 85>>,
     <<"PATTERN", 85>>, <<"COLOR", 90>>, <<"STYLE", 80>>, <<"LENGTH", 75>>,
     <<"PRINT", 70>>, <<"EMBROIDERY", 65>>, <<"PLACKET", 70>>,
     <<"POCKET", 65>>, <<"WAIST", 75>>, <<"CLOSURE", 70>> >>

DefaultPriority == 50

\* "for keyword, priority in table: if keyword in key: return priority"
RECURSIVE ScanPriorities(_, _)
ScanPriorities(table, key) ==
  IF table = << >> THEN DefaultPriority
  ELSE IF IsSubstring(Head(table)[1], key) THEN Head(table)[2]
  ELSE ScanPriorities(Tail(table), key)

get_priority(key) == ScanPriorities(priorities, key)

\* generate_aliases: the set of aliases, empty strings filtered out
generate_aliases(short_form, full_form) ==
  LET fromShort ==
        IF short_form # "" /\ ~isna(short_form)
        THEN { strip(short_form), replace(short_form, "_", " "),
               replace(short_form, "-", " ") }
        ELSE {}
      fromFull ==
        IF full_form # "" /\ ~isna(full_form) /\ full_form # short_form
        THEN { strip(full_form), replace(full_form, "_", " "),
               replace(full_form, "-", " ") }
        ELSE {}
  IN  { a \in fromShort \cup fromFull : a # "" }

----------------------------------------------------------------------------
(* Idle values of the variables a specification does not use *)

NoFrame == [cols |-> << >>, rows |-> << >>]

IdleRun ==
  /\ workbook = << >>
  /\ sheet_i = 1
  /\ all_data = << >>
  /\ combined_df = NoFrame
  /\ departments = << >>
  /\ sub_divisions = << >>
  /\ major_categories = << >>
  /\ attributes = << >>
  /\ category_mappings = << >>
  /\ stdout = << >>
  /\ exit_code = -1

RunVars ==
  << workbook, sheet_i, all_data, combined_df, departments, sub_divisions,
     major_categories, attributes, category_mappings, stdout, exit_code >>

----------------------------------------------------------------------------
(* pandas data frames *)

SeqToSet(s) == { s[i] : i \in DOMAIN s }

HasCol(df, c) == c \in SeqToSet(df.cols)

ColIndex(df, c) == CHOOSE i \in DOMAIN df.cols : df.cols[i] = c

NRows(df) == Len(df.rows)

\* df[c][r]; a column the frame lacks reads as missing
Cell(df, r, c) == IF HasCol(df, c) THEN df.rows[r][ColIndex(df, c)] ELSE NaN

\* str(v) of a cell
pystr(v) == IF v = NaN THEN "nan" ELSE v

\* df[c] = value
SetColumn(df, c, value) ==
  IF HasCol(df, c)
  THEN [df EXCEPT !.rows =
          [r \in DOMAIN df.rows |-> [df.rows[r] EXCEPT ![ColIndex(df, c)] = value]]]
  ELSE [cols |-> Append(df.cols, c),
        rows |-> [r \in DOMAIN df.rows |-> Append(df.rows[r], value)]]

\* the first occurrence of every element of s, in order
unique(s) ==
  LET first == SelectSeq([i \in DOMAIN s |-> i],
                         LAMBDA i : \A j \in 1..(i - 1) : s[j] # s[i])
  IN  [k \in DOMAIN first |-> s[first[k]]]

RECURSIVE Flatten(_)
Flatten(ss) == IF ss = << >> THEN << >> ELSE Head(ss) \o Flatten(Tail(ss))

\* the column order of pd.concat: every column at its first appearance
ConcatCols(frames) == unique(Flatten([i \in DOMAIN frames |-> frames[i].cols]))

Realign(df, cols) ==
  [r \in DOMAIN df.rows |-> [k \in DOMAIN cols |-> Cell(df, r, cols[k])]]

\* pd.concat(frames, ignore_index=True) of a non-empty list
concat(frames) ==
  LET cols == ConcatCols(frames)
  IN  [cols |-> cols,
       rows |-> Flatten([i \in DOMAIN frames |-> Realign(frames[i], cols)])]

\* a projection that would read an absent column as missing cells
ProjectionNeverRaises(df, cols) == FALSE

\* df[[c1, ..., cn]] raises KeyError when a column is not in the frame
ProjectionRaises(df, cols) == \E k \in DOMAIN cols : ~HasCol(df, cols[k])

\* df[[c1, ..., cn]] as the sequence of its rows
Project(df, cols) == Realign(df, cols)

drop_duplicates(rows) == unique(rows)

HasNaN(row) == \E k \in DOMAIN row : row[k] = NaN

dropna(rows) == SelectSeq(rows, LAMBDA row : ~HasNaN(row))

\* dropna(subset=[the k-th projected column])
dropna_subset(rows, k) == SelectSeq(rows, LAMBDA row : row[k] # NaN)

----------------------------------------------------------------------------
(* The stages of parse_excel *)

\* pd.read_excel(file_path, sheet_name=SHEETS[i], header=4) raises
ReadRaises(i) == ~workbook[i].ok

\* the frame appended for sheet i: the sheet tagged with its name
TaggedFrame(i) ==
  SetColumn([cols |-> workbook[i].cols, rows |-> workbook[i].rows],
            "FABRIC_SHEET", SHEETS[i])

DeptCols == << "FINISHED GOODS DIVISION", "FINISHED GOODS DIVISION FULL NAME" >>

Departments(df) ==
  LET dept_df == dropna(drop_duplicates(Project(df, DeptCols)))
  IN  [i \in DOMAIN dept_df |->
         [code |-> strip(pystr(dept_df[i][1])),
          name |-> strip(pystr(dept_df[i][1])),
          full_name |-> strip(pystr(dept_df[i][2]))]]

SubDivCols ==
  << "FINISHED GOODS DIVISION", "SUB-DIVISION", "SUB-DIVISION FULL NAME" >>

SubDivisions(df) ==
  LET subdiv_df == dropna(drop_duplicates(Project(df, SubDivCols)))
  IN  [i \in DOMAIN subdiv_df |->
         [department_code |-> strip(pystr(subdiv_df[i][1])),
          code |-> strip(pystr(subdiv_df[i][2])),
          name |-> strip(pystr(subdiv_df[i][2])),
          full_name |-> strip(pystr(subdiv_df[i][3]))]]

CatCols ==
  << "SUB-DIVISION", "MAJOR CATEGORY", "MAJOR CATEGORY FULL FORM",
     "MERCHENDISE CATEGORY CODE", "MERCHENDISE CATEGORY DESCRIPTION",
     "FABRIC_SHEET" >>

\* the cat_df of the major-category stage
CatFrame(df) == dropna_subset(drop_duplicates(Project(df, CatCols)), 2)

StripOrNone(v) == IF isna(v) THEN None ELSE strip(pystr(v))

\* a disambiguation that never suffixes
DisambiguatedCodeNeverSuffixed(original_code, fabric_sheet, seen_codes) ==
  original_code

\* the code given to a row: the name, sheet-suffixed when already seen
DisambiguatedCode(original_code, fabric_sheet, seen_codes) ==
  IF original_code \in seen_codes
  THEN original_code \o "_" \o fabric_sheet
  ELSE original_code

\* "for idx, row in cat_df.iterrows()"
RECURSIVE CategoryLoop(_, _, _)
CategoryLoop(rows, seen_codes, out) ==
  IF rows = << >> THEN out
  ELSE LET row == Head(rows)
           original_code == strip(pystr(row[2]))
           fabric_sheet == strip(pystr(row[6]))
           code == DisambiguatedCode(original_code, fabric_sheet, seen_codes)
       IN  CategoryLoop(Tail(rows), seen_codes \cup {code},
             Append(out,
               [sub_division_code |-> strip(pystr(row[1])),
                code |-> code,
                name |-> original_code,
                full_form |-> StripOrNone(row[3]),
                merchandise_code |-> StripOrNone(row[4]),
                merchandise_desc |-> StripOrNone(row[5]),
                fabric_sheet |-> fabric_sheet]))

MajorCategories(df) == CategoryLoop(CatFrame(df), {}, << >>)

all_cols(df) ==
  SelectSeq(df.cols,
            LAMBDA col : col \notin HIERARCHY_COLS /\ ~startswith(col, "Unnamed"))

attr_cols(df) ==
  SelectSeq(all_cols(df), LAMBDA col : ~IsSubstring("FULL NAME", col))

Column(df, col) == [r \in DOMAIN df.rows |-> Cell(df, r, col)]

\* the (short, full) pairs a column offers, in row order
ValueRows(df, col) ==
  LET full_name_col == col \o " FULL NAME"
  IN  IF HasCol(df, full_name_col)
      THEN dropna(drop_duplicates(Project(df, << col, full_name_col >>)))
      ELSE LET unique_values ==
                 unique(SelectSeq(Column(df, col), LAMBDA v : v # NaN))
           IN  [i \in DOMAIN unique_values |->
                  << unique_values[i], unique_values[i] >>]

\* the value loop without the seen_values test
RECURSIVE ValueLoopKeepsAll(_, _, _)
ValueLoopKeepsAll(pairs, seen_values, out) ==
  IF pairs = << >> THEN out
  ELSE LET short == strip(pystr(Head(pairs)[1]))
           full == strip(pystr(Head(pairs)[2]))
       IN  ValueLoopKeepsAll(Tail(pairs), seen_values \cup {short},
             Append(out, [short_form |-> short,
                          full_form |-> full,
                          aliases |-> generate_aliases(short, full)]))

\* the loops over value_df / unique_values, deduplicating by short_form
RECURSIVE ValueLoop(_, _, _)
ValueLoop(pairs, seen_values, out) ==
  IF pairs = << >> THEN out
  ELSE LET short == strip(pystr(Head(pairs)[1]))
           full == strip(pystr(Head(pairs)[2]))
       IN  IF short \in seen_values
           THEN ValueLoop(Tail(pairs), seen_values, out)
           ELSE ValueLoop(Tail(pairs), seen_values \cup {short},
                  Append(out, [short_form |-> short,
                               full_form |-> full,
                               aliases |-> generate_aliases(short, full)]))

AllowedValues(df, col) == ValueLoop(ValueRows(df, col), {}, << >>)

\* a skip test that forgets the processed keys
SkipColumnEmptyOnly(key, processed_attrs) == key = None \/ key = ""

\* "if not key or key in processed_attrs: continue"
SkipColumn(key, processed_attrs) ==
  key = None \/ key = "" \/ key \in processed_attrs

\* "for col in attr_cols"
RECURSIVE AttributeLoop(_, _, _, _)
AttributeLoop(df, cols, processed_attrs, out) ==
  IF cols = << >> THEN out
  ELSE LET col == Head(cols)
           key == normalize_key(col)
       IN  IF SkipColumn(key, processed_attrs)
           THEN AttributeLoop(df, Tail(cols), processed_attrs, out)
           ELSE AttributeLoop(df, Tail(cols), processed_attrs \cup {key},
                  Append(out,
                    [key |-> key,
                     label |-> col,
                     full_form |-> col,
                     category |-> categorize_attribute(key),
                     ai_extractable |-> is_ai_extractable(key),
                     visible_from_distance |-> is_visible(key),
                     extraction_priority |-> get_priority(key),
                     allowed_values |-> AllowedValues(df, col)]))

Attributes(df) == AttributeLoop(df, attr_cols(df), {}, << >>)

\* a test that looks at the whole frame instead of the category's rows
has_values_any_row(df, cat_code, col) ==
  \E r \in DOMAIN df.rows : Cell(df, r, col) # NaN

\* cat_df[col].notna().any() for cat_df = the rows whose category is cat_code
has_values(df, cat_code, col) ==
  \E r \in DOMAIN df.rows :
     /\ Cell(df, r, "MAJOR CATEGORY") = cat_code
     /\ Cell(df, r, col) # NaN

\* edges that carry the category untrimmed
CategoryEdgesUntrimmed(df, cat_code) ==
  LET cols == SelectSeq(attr_cols(df),
                LAMBDA col : /\ \E r \in DOMAIN df.rows :
                                   /\ Cell(df, r, "MAJOR CATEGORY") = cat_code
                                   /\ Cell(df, r, col) # NaN
                             /\ normalize_key(col) \notin {None, ""})
  IN  [k \in DOMAIN cols |->
         [major_category |-> pystr(cat_code),
          attribute |-> normalize_key(cols[k])]]

\* the edges of one category, in column order
CategoryEdges(df, cat_code) ==
  LET cols == SelectSeq(attr_cols(df),
                LAMBDA col : /\ has_values(df, cat_code, col)
                             /\ normalize_key(col) \notin {None, ""})
  IN  [k \in DOMAIN cols |->
         [major_category |-> strip(pystr(cat_code)),
          attribute |-> normalize_key(cols[k])]]

CategoryMappings(df) ==
  LET cat_codes == SelectSeq(unique(Column(df, "MAJOR CATEGORY")),
                             LAMBDA c : ~isna(c))
  IN  Flatten([i \in DOMAIN cat_codes |-> CategoryEdges(df, cat_codes[i])])

\* the dict parse_excel returns
Result ==
  [departments |-> departments,
   sub_divisions |-> sub_divisions,
   major_categories |-> major_categories,
   attributes |-> attributes,
   category_mappings |-> category_mappings]

----------------------------------------------------------------------------
(* The run: __main__ calling parse_excel *)

\* "for sheet_name in SHEETS": the read succeeds, the tagged frame is appended
ReadSheetOk ==
  /\ pc = "read"
  /\ sheet_i <= Len(SHEETS)
  /\ ~ReadRaises(sheet_i)
  /\ all_data' = Append(all_data, TaggedFrame(sheet_i))
  /\ sheet_i' = sheet_i + 1
  /\ UNCHANGED << workbook, pc, combined_df, departments, sub_divisions,
                  major_categories, attributes, category_mappings, stdout,
                  exit_code, fn_in, fn_out >>

\* a failed read that ends the run instead of being skipped
ReadSheetFailsAborts ==
  /\ pc = "read"
  /\ sheet_i <= Len(SHEETS)
  /\ ReadRaises(sheet_i)
  /\ pc' = "except"
  /\ UNCHANGED << RunVars, fn_in, fn_out >>

\* the read raises: "except Exception" reports the sheet and the loop goes on
ReadSheetFails ==
  /\ pc = "read"
  /\ sheet_i <= Len(SHEETS)
  /\ ReadRaises(sheet_i)
  /\ sheet_i' = sheet_i + 1
  /\ UNCHANGED << workbook, pc, all_data, combined_df, departments,
                  sub_divisions, major_categories, attributes,
                  category_mappings, stdout, exit_code, fn_in, fn_out >>

\* pd.concat(all_data) of a non-empty list
ConcatSheets ==
  /\ pc = "read"
  /\ sheet_i > Len(SHEETS)
  /\ all_data # << >>
  /\ combined_df' = concat(all_data)
  /\ pc' = "departments"
  /\ UNCHANGED << workbook, sheet_i, all_data, departments, sub_divisions,
                  major_categories, attributes, category_mappings, stdout,
                  exit_code, fn_in, fn_out >>

\* pd.concat([]) raises ValueError
ConcatRaises ==
  /\ pc = "read"
  /\ sheet_i > Len(SHEETS)
  /\ all_data = << >>
  /\ pc' = "except"
  /\ UNCHANGED << RunVars, fn_in, fn_out >>

ExtractDepartments ==
  /\ pc = "departments"
  /\ ~ProjectionRaises(combined_df, DeptCols)
  /\ departments' = Departments(combined_df)
  /\ pc' = "sub_divisions"
  /\ UNCHANGED << workbook, sheet_i, all_data, combined_df, sub_divisions,
                  major_categories, attributes, category_mappings, stdout,
                  exit_code, fn_in, fn_out >>

ExtractDepartmentsRaises ==
  /\ pc = "departments"
  /\ ProjectionRaises(combined_df, DeptCols)
  /\ pc' = "except"
  /\ UNCHANGED << RunVars, fn_in, fn_out >>

ExtractSubDivisions ==
  /\ pc = "sub_divisions"
  /\ ~ProjectionRaises(combined_df, SubDivCols)
  /\ sub_divisions' = SubDivisions(combined_df)
  /\ pc' = "major_categories"
  /\ UNCHANGED << workbook, sheet_i, all_data, combined_df, departments,
                  major_categories, attributes, category_mappings, stdout,
                  exit_code, fn_in, fn_out >>

ExtractSubDivisionsRaises ==
  /\ pc = "sub_divisions"
  /\ ProjectionRaises(combined_df, SubDivCols)
  /\ pc' = "except"
  /\ UNCHANGED << RunVars, fn_in, fn_out >>

ExtractMajorCategories ==
  /\ pc = "major_categories"
  /\ ~ProjectionRaises(combined_df, CatCols)
  /\ major_categories' = MajorCategories(combined_df)
  /\ pc' = "attributes"
  /\ UNCHANGED << workbook, sheet_i, all_data, combined_df, departments,
                  sub_divisions, attributes, category_mappings, stdout,
                  exit_code, fn_in, fn_out >>

ExtractMajorCategoriesRaises ==
  /\ pc = "major_categories"
  /\ ProjectionRaises(combined_df, CatCols)
  /\ pc' = "except"
  /\ UNCHANGED << RunVars, fn_in, fn_out >>

ExtractAttributes ==
  /\ pc = "attributes"
  /\ attributes' = Attributes(combined_df)
  /\ pc' = "mappings"
  /\ UNCHANGED << workbook, sheet_i, all_data, combined_df, departments,
                  sub_divisions, major_categories, category_mappings, stdout,
                  exit_code, fn_in, fn_out >>

BuildMappings ==
  /\ pc = "mappings"
  /\ category_mappings' = CategoryMappings(combined_df)
  /\ pc' = "print"
  /\ UNCHANGED << workbook, sheet_i, all_data, combined_df, departments,
                  sub_divisions, major_categories, attributes, stdout,
                  exit_code, fn_in, fn_out >>

\* parse_excel returned: print(json.dumps(data)), then the script ends
PrintJson ==
  /\ pc = "print"
  /\ stdout' = Append(stdout, Result)
  /\ exit_code' = 0
  /\ pc' = "exited"
  /\ UNCHANGED << workbook, sheet_i, all_data, combined_df, departments,
                  sub_divisions, major_categories, attributes,
                  category_mappings, fn_in, fn_out >>

\* "except Exception as e": the error goes to stderr, sys.exit(1)
HandleException ==
  /\ pc = "except"
  /\ exit_code' = 1
  /\ pc' = "exited"
  /\ UNCHANGED << workbook, sheet_i, all_data, combined_df, departments,
                  sub_divisions, major_categories, attributes,
                  category_mappings, stdout, fn_in, fn_out >>

Next ==
  \/ ReadSheetOk
  \/ ReadSheetFails
  \/ ConcatSheets
  \/ ConcatRaises
  \/ ExtractDepartments
  \/ ExtractDepartmentsRaises
  \/ ExtractSubDivisions
  \/ ExtractSubDivisionsRaises
  \/ ExtractMajorCategories
  \/ ExtractMajorCategoriesRaises
  \/ ExtractAttributes
  \/ BuildMappings
  \/ PrintJson
  \/ HandleException

\* the state when __main__ calls parse_excel on one of the workbooks of books
InitOn(books) ==
  /\ workbook \in books
  /\ pc = "read"
  /\ sheet_i = 1
  /\ all_data = << >>
  /\ combined_df = NoFrame
  /\ departments = << >>
  /\ sub_divisions = << >>
  /\ major_categories = << >>
  /\ attributes = << >>
  /\ category_mappings = << >>
  /\ stdout = << >>
  /\ exit_code = -1
  /\ fn_in = ""
  /\ fn_out = << >>

----------------------------------------------------------------------------
(* The workbooks the run is checked on *)

BaseCols ==
  << "FINISHED GOODS DIVISION", "FINISHED GOODS DIVISION FULL NAME",
     "SUB-DIVISION", "SUB-DIVISION FULL NAME", "MAJOR CATEGORY",
     "MAJOR CATEGORY FULL FORM", "MERCHENDISE CATEGORY CODE",
     "MERCHENDISE CATEGORY DESCRIPTION" >>

MissingSheet == [ok |-> FALSE, cols |-> << >>, rows |-> << >>]

Sheet(cols, rows) == [ok |-> TRUE, cols |-> cols, rows |-> rows]

\* a row of the hierarchy columns
HierRow(div_full, sub, cat) ==
  << "M", div_full, sub, "SUB " \o sub, cat, "FULL FORM", "MC10", "DESC" >>

RECURSIVE SeqsUpTo(_, _)
SeqsUpTo(S, n) ==
  IF n = 0 THEN { << >> }
  ELSE LET shorter == SeqsUpTo(S, n - 1)
       IN  shorter \cup { Append(s, x) : s \in shorter, x \in S }

\* every subset of the nine sheets missing, the others holding one row
LoadBooks ==
  { [i \in DOMAIN SHEETS |->
       IF i \in present
       THEN Sheet(BaseCols, << HierRow("MENS", "s", "A") >>)
       ELSE MissingSheet] : present \in SUBSET (DOMAIN SHEETS) }

\* sheets that lack one of the columns the projections name
WithoutCol(cols, c) == SelectSeq(cols, LAMBDA x : x # c)

Schemas ==
  { BaseCols,
    WithoutCol(BaseCols, "FINISHED GOODS DIVISION FULL NAME"),
    WithoutCol(BaseCols, "SUB-DIVISION FULL NAME"),
    WithoutCol(BaseCols, "MERCHENDISE CATEGORY CODE") }

Restrict(row, cols) ==
  LET full == [cols |-> BaseCols, rows |-> << row >>]
  IN  [k \in DOMAIN cols |-> Cell(full, 1, cols[k])]

SchemaSheets ==
  { MissingSheet } \cup
  { Sheet(cols, [k \in DOMAIN rows |-> Restrict(rows[k], cols)]) :
      cols \in Schemas,
      rows \in { << >>, << HierRow("MENS", "s", "A") >>,
                 << HierRow(NaN, "s", "A") >> } }

SchemaPositions == {1, 2, 9}

SchemaBooks ==
  { [i \in DOMAIN SHEETS |->
       IF i \in SchemaPositions THEN f[i] ELSE MissingSheet] :
      f \in [SchemaPositions -> SchemaSheets] }

Init == InitOn(LoadBooks \cup SchemaBooks)

Spec == Init /\ [][Next]_vars

\* two sheets of category rows: the same name again in the sheet, in the
\* other sheet, with surrounding whitespace, and a name that reads like a
\* sheet-suffixed code
CatRows ==
  { HierRow("MENS", "s", "A"), HierRow("MENS", "t", " A"),
    HierRow("MENS", "s", "A_KNITS-U"), HierRow("MENS", "s", NaN) }

\* the first k rows on the first sheet, the others on the second
TwoSheetBook(cols, rows, k) ==
  [i \in DOMAIN SHEETS |->
     IF i = 1 THEN Sheet(cols, SubSeq(rows, 1, k))
     ELSE IF i = 2 THEN Sheet(cols, SubSeq(rows, k + 1, Len(rows)))
     ELSE MissingSheet]

\* every split over the two sheets of every sequence of at most n rows
TwoSheetBooks(cols, rowset, n) ==
  UNION { { TwoSheetBook(cols, rows, k) : k \in 0..Len(rows) } :
            rows \in SeqsUpTo(rowset, n) }

CatBooks(n) == TwoSheetBooks(BaseCols, CatRows, n)

InitCategories == InitOn(CatBooks(MaxCatRows) \cup SchemaBooks)

SpecCategories == InitCategories /\ [][Next]_vars

\* attribute columns: a column with its companion, a second column that
\* normalizes to the same key, a whitespace-only header and an unnamed one
CompanionCols ==
  BaseCols \o << "SLEEVE TYPE", "SLEEVE TYPE FULL NAME", "SLEEVE-TYPE", " ",
                 "Unnamed: 9" >>

CompanionRow(cat, short, full, other) ==
  HierRow("MENS", "s", cat) \o << short, full, other, "z", "u" >>

CompanionRows ==
  { CompanionRow(cat, p[1], "Round", p[2]) :
      cat \in {"A", " A"},
      p \in { << NaN, NaN >>, << "r", NaN >>, << NaN, "w" >> } }
  \cup
  { CompanionRow("A", " r", "Raglan", NaN),
    CompanionRow("A", "r", NaN, NaN),
    CompanionRow(NaN, "r", "Round", "w") }

\* the colliding column first, and no companion column
PlainCols == BaseCols \o << "SLEEVE-TYPE", "SLEEVE TYPE" >>

PlainRows ==
  { HierRow("MENS", "s", cat) \o p :
      cat \in {"A", " A"},
      p \in { << NaN, NaN >>, << "w", NaN >>, << NaN, "r" >> } }
  \cup
  { HierRow("MENS", "s", "A") \o << NaN, " r" >> }
  \cup
  { HierRow("MENS", "s", "B") \o << NaN, short >> : short \in {NaN, "r"} }

AttrBooks(n) ==
  TwoSheetBooks(CompanionCols, CompanionRows, n)
  \cup TwoSheetBooks(PlainCols, PlainRows, n)

InitAttributes == InitOn(AttrBooks(MaxAttrRows) \cup SchemaBooks)

SpecAttributes == InitAttributes /\ [][Next]_vars

----------------------------------------------------------------------------
(* Sheet failures and missing columns *)

LoadedSheets == { i \in DOMAIN SHEETS : workbook[i].ok }

\* the columns of the sheets that load
PresentCols == UNION { SeqToSet(workbook[i].cols) : i \in LoadedSheets }

ExpectedCols == SeqToSet(BaseCols)

AllExpectedPresent == ExpectedCols \subseteq PresentCols

\* the positions below n of the sheets that load, in SHEETS order
LoadedBelow(n) ==
  SelectSeq([i \in 1..(n - 1) |-> i], LAMBDA i : workbook[i].ok)

RowsOf(df) == DOMAIN df.rows

\* C6: a sheet whose read fails is skipped and the loop goes on in SHEETS
\* order; with a sheet loaded (and the expected columns present) the run
\* exits 0 with the JSON document on standard output, with no sheet loaded it
\* exits non-zero with nothing on standard output; nothing is printed before
\* the whole result is computed.
SheetFailureIsSkipped ==
  /\ pc = "read" =>
       LET loaded == LoadedBelow(sheet_i)
       IN  all_data = [k \in DOMAIN loaded |->
                         SetColumn([cols |-> workbook[loaded[k]].cols,
                                    rows |-> workbook[loaded[k]].rows],
                                   "FABRIC_SHEET", SHEETS[loaded[k]])]
  /\ (pc = "exited" /\ LoadedSheets # {} /\ AllExpectedPresent) =>
       /\ exit_code = 0
       /\ stdout = << Result >>
       /\ NRows(combined_df) =
            Len(Flatten([k \in DOMAIN LoadedBelow(Len(SHEETS) + 1) |->
                           workbook[LoadedBelow(Len(SHEETS) + 1)[k]].rows]))
  /\ (pc = "exited" /\ LoadedSheets = {}) =>
       /\ exit_code # 0
       /\ stdout = << >>
  /\ stdout # << >> =>
       /\ pc = "exited"
       /\ exit_code = 0
       /\ stdout = << Result >>
       /\ category_mappings = CategoryMappings(combined_df)

\* a run that skipped a failing sheet lying before a loaded one and exited 0
SkippedSheetThenJson ==
  /\ pc = "exited"
  /\ exit_code = 0
  /\ stdout # << >>
  /\ \E i, j \in DOMAIN SHEETS : i < j /\ ~workbook[i].ok /\ workbook[j].ok

\* C5 as stated: with an expected column absent from every loaded sheet the
\* run still completes and returns its result; it does not end in exit 1.
MissingColumnNotFatal ==
  (pc = "exited" /\ LoadedSheets # {} /\ ~AllExpectedPresent) =>
    /\ exit_code = 0
    /\ stdout # << >>

\* C5 amended: an expected column absent from every loaded sheet is fatal:
\* the run exits 1 with nothing on standard output.  Only a missing cell of a
\* present column drops a row, and only from the derivation that reads it:
\* the departments are those of the rows with both division fields, and a
\* row with a category yields a major category whatever else it lacks.
MissingColumnIsFatal ==
  /\ (pc = "exited" /\ LoadedSheets # {} /\ ~AllExpectedPresent) =>
       /\ exit_code = 1
       /\ stdout = << >>
  /\ (pc = "exited" /\ exit_code = 0) =>
       /\ { << departments[i].code, departments[i].full_name >> :
              i \in DOMAIN departments }
            = { << strip(Cell(combined_df, r, DeptCols[1])),
                   strip(Cell(combined_df, r, DeptCols[2])) >> :
                  r \in { q \in RowsOf(combined_df) :
                            /\ Cell(combined_df, q, DeptCols[1]) # NaN
                            /\ Cell(combined_df, q, DeptCols[2]) # NaN } }
       /\ \A r \in RowsOf(combined_df) :
            Cell(combined_df, r, "MAJOR CATEGORY") # NaN =>
              \E k \in DOMAIN major_categories :
                 /\ major_categories[k].name
                      = strip(Cell(combined_df, r, "MAJOR CATEGORY"))
                 /\ major_categories[k].fabric_sheet
                      = Cell(combined_df, r, "FABRIC_SHEET")

\* a run on sheets that all lack an expected column, ended in exit 1
MissingColumnExit1 ==
  /\ pc = "exited"
  /\ LoadedSheets # {}
  /\ "MERCHENDISE CATEGORY CODE" \notin PresentCols
  /\ exit_code = 1

----------------------------------------------------------------------------
(* Major-category codes *)

\* the major-category stage has run
CategoriesDone ==
  \/ pc \in {"attributes", "mappings", "print"}
  \/ pc = "exited" /\ exit_code = 0

\* C1: no two entries of major_categories share a code.
CodesPairwiseDistinct ==
  CategoriesDone =>
    \A i, j \in DOMAIN major_categories :
       i # j => major_categories[i].code # major_categories[j].code

\* the positions of the entries named n, in emission order
EntriesNamed(n) ==
  SelectSeq([k \in DOMAIN major_categories |-> k],
            LAMBDA k : major_categories[k].name = n)

\* the trimmed names that rows of two different sheets share
SharedNames ==
  { strip(Cell(combined_df, r, "MAJOR CATEGORY")) :
      r \in { q \in RowsOf(combined_df) :
                /\ Cell(combined_df, q, "MAJOR CATEGORY") # NaN
                /\ \E p \in RowsOf(combined_df) :
                      /\ Cell(combined_df, p, "MAJOR CATEGORY")
                           = Cell(combined_df, q, "MAJOR CATEGORY")
                      /\ Cell(combined_df, p, "FABRIC_SHEET")
                           # Cell(combined_df, q, "FABRIC_SHEET") } }

Suffixed(k) ==
  major_categories[k].name \o "_" \o major_categories[k].fabric_sheet

\* every entry is named by the trimmed category of its row
NamesAreTrimmedRaw ==
  /\ Len(major_categories) = Len(CatFrame(combined_df))
  /\ \A k \in DOMAIN major_categories :
        major_categories[k].name = strip(CatFrame(combined_df)[k][2])

\* C9 as stated: of a name shared across two sheets the first emitted entry
\* has the name as its code and the second the name suffixed with its own
\* sheet; every entry is named by the trimmed category of its row.
FirstPlainSecondSuffixed ==
  CategoriesDone =>
    /\ \A n \in SharedNames :
          LET e == EntriesNamed(n)
          IN  /\ Len(e) >= 2
              /\ major_categories[e[1]].code = n
              /\ major_categories[e[2]].code = Suffixed(e[2])
    /\ NamesAreTrimmedRaw

\* C9 amended: the second emitted entry of a shared name has the name
\* suffixed with its own sheet as its code; the first has the name itself
\* unless an earlier entry already has that very code, and then it is
\* suffixed too; every entry is named by the trimmed category of its row.
SecondSuffixedFirstPlainUnlessTaken ==
  CategoriesDone =>
    /\ \A n \in SharedNames :
          LET e == EntriesNamed(n)
              taken == \E j \in 1..(e[1] - 1) : major_categories[j].code = n
          IN  /\ Len(e) >= 2
              /\ major_categories[e[1]].code = (IF taken THEN Suffixed(e[1]) ELSE n)
              /\ major_categories[e[2]].code = Suffixed(e[2])
    /\ NamesAreTrimmedRaw

\* a name on both sheets, emitted plain and then with the second sheet's name
SharedNameDisambiguated ==
  /\ pc = "exited"
  /\ \E i, j \in DOMAIN major_categories :
        /\ i < j
        /\ major_categories[i].name = "A"
        /\ major_categories[i].code = "A"
        /\ major_categories[i].fabric_sheet = "KNITS-U"
        /\ major_categories[j].name = "A"
        /\ major_categories[j].code = "A_KNITS-L"

----------------------------------------------------------------------------
(* The attribute catalog and the mappings *)

RunSucceeded == pc = "exited" /\ exit_code = 0

\* the attribute columns whose key is neither absent nor empty
KeyedCols ==
  { c \in SeqToSet(attr_cols(combined_df)) : normalize_key(c) \notin {None, ""} }

\* the position of column c among the columns of the combined frame
ColPos(c) == ColIndex(combined_df, c)

FirstColOfKey(key) ==
  CHOOSE c \in KeyedCols :
     /\ normalize_key(c) = key
     /\ \A d \in KeyedCols : normalize_key(d) = key => ColPos(c) <= ColPos(d)

\* C7: the keys of attributes are pairwise distinct; of the columns that
\* normalize to one key exactly one attribute is emitted, built from the
\* first of them in column order (its label and its allowed values).
AttributeKeysDistinct ==
  RunSucceeded =>
    /\ \A i, j \in DOMAIN attributes :
          i # j => attributes[i].key # attributes[j].key
    /\ { attributes[i].key : i \in DOMAIN attributes }
         = { normalize_key(c) : c \in KeyedCols }
    /\ \A i \in DOMAIN attributes :
          /\ attributes[i].label = FirstColOfKey(attributes[i].key)
          /\ \A v \in DOMAIN attributes[i].allowed_values :
                \E r \in RowsOf(combined_df) :
                   attributes[i].allowed_values[v].short_form
                     = strip(Cell(combined_df, r, FirstColOfKey(attributes[i].key)))

\* two columns with one key, one attribute, labelled by the first column
CollidingColumnsOneAttribute ==
  /\ RunSucceeded
  /\ \E c, d \in KeyedCols :
        /\ ColPos(c) < ColPos(d)
        /\ normalize_key(c) = normalize_key(d)
        /\ \E r \in RowsOf(combined_df) : Cell(combined_df, r, d) # NaN
        /\ \E i \in DOMAIN attributes :
              /\ attributes[i].label = c
              /\ attributes[i].allowed_values # << >>

HasCompanion(c) == HasCol(combined_df, c \o " FULL NAME")

\* the rows that offer a value of column c: the cell is present, and so is
\* the companion's when the column has one
OfferingRows(c) ==
  { r \in RowsOf(combined_df) :
      /\ Cell(combined_df, r, c) # NaN
      /\ HasCompanion(c) => Cell(combined_df, r, c \o " FULL NAME") # NaN }

FirstOffering(c, short) ==
  CHOOSE r \in OfferingRows(c) :
     /\ strip(Cell(combined_df, r, c)) = short
     /\ \A q \in OfferingRows(c) :
           strip(Cell(combined_df, q, c)) = short => r <= q

RawCategories ==
  { Cell(combined_df, r, "MAJOR CATEGORY") : r \in RowsOf(combined_df) } \ {NaN}

PartitionHasValue(cat, c) ==
  \E r \in RowsOf(combined_df) :
     /\ Cell(combined_df, r, "MAJOR CATEGORY") = cat
     /\ Cell(combined_df, r, c) # NaN

Edges == SeqToSet(category_mappings)

Edge(cat, key) == [major_category |-> cat, attribute |-> key]

\* C4 as stated: for a category C and an attribute column X with a key, the
\* edge {C, normalize_key(X)} is emitted if and only if a row of C has a
\* value in X.
EdgeIffPartitionHasValue ==
  RunSucceeded =>
    \A cat \in RawCategories : \A c \in KeyedCols :
       Edge(strip(cat), normalize_key(c)) \in Edges <=> PartitionHasValue(cat, c)

\* C4 amended: the edge {C, K} is emitted if and only if a row whose
\* category trims to C has a value in some attribute column that normalizes
\* to K; so a category with a value in X always has the edge of X.
EdgeIffSomeColumnOfKeyHasValue ==
  RunSucceeded =>
    /\ Edges = { Edge(strip(cat), normalize_key(c)) :
                   << cat, c >> \in { p \in RawCategories \X KeyedCols :
                                        PartitionHasValue(p[1], p[2]) } }
    /\ \A cat \in RawCategories : \A c \in KeyedCols :
          PartitionHasValue(cat, c) =>
            Edge(strip(cat), normalize_key(c)) \in Edges

\* one category with the edge of a key through a value in only one of the
\* columns of that key, and another category without the edge
EdgePresentAndAbsent ==
  /\ RunSucceeded
  /\ \E cat \in RawCategories : \E c, d \in KeyedCols :
        /\ normalize_key(c) = normalize_key(d)
        /\ PartitionHasValue(cat, c)
        /\ ~PartitionHasValue(cat, d)
        /\ Edge(strip(cat), normalize_key(c)) \in Edges
  /\ \E cat \in RawCategories : \E c \in KeyedCols :
        Edge(strip(cat), normalize_key(c)) \notin Edges

\* C10: every edge names the key of an emitted attribute and the name of an
\* emitted major category.
MappingsReferToCatalog ==
  \A e \in Edges :
     /\ \E i \in DOMAIN attributes : attributes[i].key = e.attribute
     /\ \E k \in DOMAIN major_categories :
           major_categories[k].name = e.major_category

\* an edge of a category whose raw value carries whitespace
EdgeOfTrimmedCategory ==
  /\ RunSucceeded
  /\ " A" \in RawCategories
  /\ "A" \notin RawCategories
  /\ Edge("A", "SLEEVE_TYPE") \in Edges

----------------------------------------------------------------------------
(* normalize_key applied to a column header, then to its own result *)

HeaderChars == {" ", "-", "/", "_", "a", "B"}

RECURSIVE StringsUpTo(_, _)
StringsUpTo(chars, n) ==
  IF n = 0 THEN {""}
  ELSE LET shorter == StringsUpTo(chars, n - 1)
       IN  shorter \cup { s \o c : s \in shorter, c \in chars }

Headers(n) == StringsUpTo(HeaderChars, n) \cup {None, "SUB-DIVISION NAME"}

InitNormalize ==
  /\ IdleRun
  /\ pc = "call"
  /\ fn_in \in Headers(MaxLen)
  /\ fn_out = << >>

CallNormalize ==
  /\ pc = "call"
  /\ fn_out' = << normalize_key(fn_in) >>
  /\ pc' = "once"
  /\ UNCHANGED << RunVars, fn_in >>

CallNormalizeAgain ==
  /\ pc = "once"
  /\ fn_out' = Append(fn_out, normalize_key(fn_out[1]))
  /\ pc' = "twice"
  /\ UNCHANGED << RunVars, fn_in >>

NextNormalize == CallNormalize \/ CallNormalizeAgain

SpecNormalize == InitNormalize /\ [][NextNormalize]_vars

\* C2: normalize_key is idempotent on every header, the absent, empty and
\* whitespace-only ones included, and maps "SUB-DIVISION NAME" to
\* "SUB_DIVISION_NAME".
NormalizeIdempotent ==
  /\ pc = "twice" => fn_out[2] = fn_out[1]
  /\ (pc = "once" /\ fn_in = "SUB-DIVISION NAME") => fn_out[1] = "SUB_DIVISION_NAME"

----------------------------------------------------------------------------
(* get_priority applied to a key *)

KeyPieces == { priorities[i][1] : i \in DOMAIN priorities } \cup {"_", "X"}

RECURSIVE KeysUpTo(_)
KeysUpTo(n) ==
  IF n = 0 THEN {""}
  ELSE LET shorter == KeysUpTo(n - 1)
       IN  shorter \cup { s \o p : s \in shorter, p \in KeyPieces }

InitPriority ==
  /\ IdleRun
  /\ pc = "call"
  /\ fn_in \in KeysUpTo(MaxWords)
  /\ fn_out = << >>

CallGetPriority ==
  /\ pc = "call"
  /\ fn_out' = << get_priority(fn_in) >>
  /\ pc' = "returned"
  /\ UNCHANGED << RunVars, fn_in >>

NextPriority == CallGetPriority

SpecPriority == InitPriority /\ [][NextPriority]_vars

\* The keyword table in the order the specification document lists it.
SpecTable ==
  << <<"NECK", 95>>, <<"COLOR", 90>>, <<"COLLAR", 90>>, <<"SLEEVES", 90>>,
     <<"FIT", 85>>, <<"PATTERN", 85>>, <<"STYLE", 80>>, <<"WAIST", 75>>,
     <<"LENGTH", 75>>, <<"PRINT", 70>>, <<"PLACKET", 70>>, <<"CLOSURE", 70>>,
     <<"EMBROIDERY", 65>>, <<"POCKET", 65>> >>

\* p is the priority of the first keyword of table (in its order) that is a
\* substring of key, or the default when there is none.
FirstMatchIs(table, key, p) ==
  \/ /\ \A i \in DOMAIN table : ~IsSubstring(table[i][1], key)
     /\ p = 50
  \/ \E i \in DOMAIN table :
        /\ IsSubstring(table[i][1], key)
        /\ \A j \in 1..(i - 1) : ~IsSubstring(table[j][1], key)
        /\ p = table[i][2]

\* C3 as stated: the result is the first match in the order NECK, COLOR,
\* COLLAR, SLEEVES, FIT, PATTERN, STYLE, WAIST, LENGTH, PRINT, PLACKET,
\* CLOSURE, EMBROIDERY, POCKET, and 50 without a match.
PriorityFollowsSpecOrder ==
  pc = "returned" => FirstMatchIs(SpecTable, fn_in, fn_out[1])

CodeOrder ==
  << <<"NECK", 95>>, <<"COLLAR", 90>>, <<"SLEEVES", 90>>, <<"FIT", 85>>,
     <<"PATTERN", 85>>, <<"COLOR", 90>>, <<"STYLE", 80>>, <<"LENGTH", 75>>,
     <<"PRINT", 70>>, <<"EMBROIDERY", 65>>, <<"PLACKET", 70>>,
     <<"POCKET", 65>>, <<"WAIST", 75>>, <<"CLOSURE", 70>> >>

\* C3 amended: the result is the first match in the order NECK, COLLAR,
\* SLEEVES, FIT, PATTERN, COLOR, STYLE, LENGTH, PRINT, EMBROIDERY, PLACKET,
\* POCKET, WAIST, CLOSURE, and 50 without a match; a key with NECK yields 95
\* and the result lies in 1..100.
PriorityFollowsCodeOrder ==
  pc = "returned" =>
    /\ FirstMatchIs(CodeOrder, fn_in, fn_out[1])
    /\ fn_out[1] \in 1..100
    /\ IsSubstring("NECK", fn_in) => fn_out[1] = 95

\* A key holding two keywords whose order decides the result has been scored.
PriorityTwoKeywordsScored ==
  /\ pc = "returned"
  /\ IsSubstring("FIT", fn_in)
  /\ IsSubstring("COLOR", fn_in)
  /\ fn_out[1] = 85

====
